---------------------------- MODULE Spec2Model ----------------------------
(***************************************************************************)
(* egui-waves: one session (struct Main) driven by the frame callback      *)
(* Main::update, with the memoising Cache<PlotData> of util.rs.            *)
(*                                                                         *)
(* Numbers.  f64 quantities live on an integer grid: frequencies and the   *)
(* sample rate are counted in hundredths of a hertz (so the clamp floor    *)
(* 1e-2 of the frequency control is the integer 1), amplitude and phase in *)
(* whole units.  Quotients the code forms (i / sample_rate,                *)
(* sample_rate / n, sample_rate / 2.56) are exact fractions kept in lowest *)
(* terms, so equality of two fractions is equality of the numbers.         *)
(* Floating point rounding is not modelled.                                *)
(*                                                                         *)
(* The numeric kernels of the crates wavegen (sine!, square!, sawtooth!)   *)
(* and rustfft (Fft::process, Complex::norm) are kept as uninterpreted     *)
(* terms over their exact arguments: equal terms denote equal numbers.     *)
(***************************************************************************)
EXTENDS Integers, Sequences, FiniteSets, TLC

(***************************************************************************)
(* Bounds of the model.                                                    *)
(***************************************************************************)
MaxComponents == 2
MaxSamples == 3
MaxRate == 2
MaxCalls == 2
\* threads that run the closure's planner request side by side
MaxSessions == 2
\* user inputs (a click, a changed control, a typed label) met by one frame
MaxInputs == 1

(***************************************************************************)
(* Program constants.                                                      *)
(***************************************************************************)
\* A scale of 1: the cut at the sample rate itself
FMAX_SCALE_ONE == [num |-> 1, den |-> 1]

\* const FMAX_SCALE: f64 = 2.56, as the fraction 64/25
FMAX_SCALE == [num |-> 64, den |-> 25]
\* Add-button defaults: frequency 100.0 Hz (in hundredths), amplitude 1.0, phase 0.0
DefaultFrequency == 10000
DefaultAmplitude == 1
DefaultPhase == 0
\* clamp_range floors and ceilings of the controls
SAMPLE_RATE_MIN == 1
N_SAMPLES_MIN == 0
FREQUENCY_MIN == 1
AMPLITUDE_MIN == 0
PHASE_MIN == 0
PHASE_MAX == 1

Kinds == {"Sine", "Square", "Sawtooth"}

(***************************************************************************)
(* Option<T>                                                               *)
(***************************************************************************)
None == <<>>
Some(x) == <<x>>
IsSome(o) == o # <<>>
Unwrap(o) == o[1]

(***************************************************************************)
(* Values a control can be driven to in one frame (before clamping).       *)
(***************************************************************************)
RateInputs == 0..MaxRate
NSamplesInputs == -1..MaxSamples
FrequencyInputs == {0, DefaultFrequency}
AmplitudeInputs == {-1, DefaultAmplitude}
PhaseInputs == {PHASE_MIN, PHASE_MAX}
\* the label field: nothing typed (None) or the text it holds after typing
NameTexts == {"tone"}
NameInputs == {None} \cup {Some(x) : x \in NameTexts}

(***************************************************************************)
(* Exact fractions.                                                        *)
(***************************************************************************)
RECURSIVE GCD(_, _)
GCD(a, b) == IF b = 0 THEN a ELSE GCD(b, a % b)

Frac(n, d) ==
    LET g == GCD(n, d)
    IN  IF g = 0 THEN [num |-> n, den |-> d]
        ELSE [num |-> n \div g, den |-> d \div g]

FracLess(a, b) == a.num * b.den < b.num * a.den

(***************************************************************************)
(* egui::DragValue / egui::Slider with a clamp range: the value the        *)
(* control writes back for a requested value.                              *)
(***************************************************************************)
Clamp(v, lo) == IF v < lo THEN lo ELSE v
ClampRange(v, lo, hi) == IF v < lo THEN lo ELSE IF v > hi THEN hi ELSE v

(***************************************************************************)
(* Component::build: the wavegen PeriodicFunction of a component.          *)
(***************************************************************************)
build(inner) ==
    [shape |-> inner.kind, frequency |-> inner.frequency,
     amplitude |-> inner.amplitude, phase |-> inner.phase]

frequency(inner) == inner.frequency

(***************************************************************************)
(* wavegen: sample i of Waveform::with_components(sample_rate, fns) is the *)
(* sum, in list order, of every function at time i / sample_rate.  The sum *)
(* of no terms is Zero.                                                    *)
(***************************************************************************)
Zero == <<>>

WaveformSample(rate, fns, i) ==
    [j \in 1..Len(fns) |-> [fn |-> fns[j], t |-> Frac(i, rate)]]

\* .iter().take(n).collect()
WaveformTake(rate, fns, n) ==
    [k \in 1..n |-> WaveformSample(rate, fns, k - 1)]

(***************************************************************************)
(* rustfft / num_complex                                                   *)
(***************************************************************************)
Complex(re, im) == [re |-> re, im |-> im]

\* A transform that is not zero on the zero buffer
FftProcessOpaque(buffer) ==
    [k \in 1..Len(buffer) |->
        Complex([dft |-> buffer, bin |-> k - 1, part |-> "re"],
                [dft |-> buffer, bin |-> k - 1, part |-> "im"])]

\* fft.process(&mut buffer): bin k of the forward transform of the buffer.
\* The transform of an all-zero buffer is all zero.
FftProcess(buffer) ==
    [k \in 1..Len(buffer) |->
        IF \A j \in 1..Len(buffer) : buffer[j] = Complex(Zero, Zero)
        THEN Complex(Zero, Zero)
        ELSE Complex([dft |-> buffer, bin |-> k - 1, part |-> "re"],
                     [dft |-> buffer, bin |-> k - 1, part |-> "im"])]

\* c.norm() / f64::from(n_samples)
NormOver(c, n) ==
    IF c = Complex(Zero, Zero) THEN Zero ELSE <<[norm |-> c, over |-> n]>>

(***************************************************************************)
(* The spectrum block of the closure (app.rs 216-237).                     *)
(***************************************************************************)
RECURSIVE take_while(_, _)
take_while(bins, fmax) ==
    IF bins = <<>> THEN <<>>
    ELSE IF FracLess(Head(bins)[1], fmax)
         THEN <<Head(bins)>> \o take_while(Tail(bins), fmax)
         ELSE <<>>

\* Every bin is emitted: the cut at fmax is left out
SpectrumUncut(waveform, rate, n) ==
    LET buffer == FftProcess([k \in 1..Len(waveform) |-> Complex(waveform[k], Zero)])
    IN  [k \in 1..Len(buffer) |->
            << Frac((k - 1) * rate, n), NormOver(buffer[k], n) >>]

Spectrum(waveform, rate, n) ==
    LET fmax == Frac(rate * FMAX_SCALE.den, FMAX_SCALE.num)
        buffer == FftProcess([k \in 1..Len(waveform) |-> Complex(waveform[k], Zero)])
        bins == [k \in 1..Len(buffer) |->
                    << Frac((k - 1) * rate, n), NormOver(buffer[k], n) >>]
    IN  take_while(bins, fmax)

(***************************************************************************)
(* The closure handed to get_or_init (app.rs 199-239).  Every element of   *)
(* `components` is built: the closure does not look at `enabled`.          *)
(***************************************************************************)
\* The time of a sample counted from 1 instead of 0
ComputePlotDataFromOne(rate, n, comps) ==
    LET waveform == WaveformTake(rate, [j \in 1..Len(comps) |-> build(comps[j].inner)], n)
    IN  [waveform |-> [k \in 1..Len(waveform) |-> << Frac(k, rate), waveform[k] >>],
         spectrum |-> Spectrum(waveform, rate, n)]

ComputePlotData(rate, n, comps) ==
    LET waveform == WaveformTake(rate, [j \in 1..Len(comps) |-> build(comps[j].inner)], n)
    IN  [waveform |-> [k \in 1..Len(waveform) |-> << Frac(k - 1, rate), waveform[k] >>],
         spectrum |-> Spectrum(waveform, rate, n)]

(***************************************************************************)
(* util.rs: Cache<T>, as the value of its field `data`.                    *)
(***************************************************************************)
\* Always runs the closure, also over stored data
get_or_init_always(data, init) == [data |-> Some(init), ran |-> TRUE]

\* Option::get_or_insert_with: the closure `init` runs only when nothing is
\* stored.  `data` is the field afterwards (the call returns a reference to
\* its content), `ran` tells whether the closure ran.
get_or_init(data, init) ==
    IF IsSome(data)
    THEN [data |-> data, ran |-> FALSE]
    ELSE [data |-> Some(init), ran |-> TRUE]

\* An invalidate that leaves stored data in place
invalidate_keeps(data) == data

invalidate(data) == None

is_valid(data) == IsSome(data)

(***************************************************************************)
(* Vec helpers used by the purge loop.                                     *)
(***************************************************************************)
\* components.iter().position(|c| !c.enabled), as Option<index>
position_disabled(comps) ==
    IF \E i \in 1..Len(comps) : ~comps[i].enabled
    THEN Some(CHOOSE i \in 1..Len(comps) :
                /\ ~comps[i].enabled
                /\ \A j \in 1..(i - 1) : comps[j].enabled)
    ELSE None

\* Drops the last element whatever i is
remove_last(comps, i) == SubSeq(comps, 1, Len(comps) - 1)

\* Vec::remove(i)
remove(comps, i) == SubSeq(comps, 1, i - 1) \o SubSeq(comps, i + 1, Len(comps))

\* The ComponentWrapper pushed by an Add button
NewComponent(kind) ==
    [inner |-> [kind |-> kind, frequency |-> DefaultFrequency,
                amplitude |-> DefaultAmplitude, phase |-> DefaultPhase],
     name |-> kind,
     enabled |-> TRUE]

(***************************************************************************)
(* Component::show_control: the three controls are joined by `||`, so a    *)
(* control is only run when every control before it reported no change.    *)
(* The result is the component after the controls and whether any changed. *)
(***************************************************************************)
show_control(inner, fv, av, pv) ==
    LET f == Clamp(fv, FREQUENCY_MIN)
        a == Clamp(av, AMPLITUDE_MIN)
        p == ClampRange(pv, PHASE_MIN, PHASE_MAX)
    IN  IF f # inner.frequency
        THEN [inner |-> [inner EXCEPT !.frequency = f], changed |-> TRUE]
        ELSE IF a # inner.amplitude
        THEN [inner |-> [inner EXCEPT !.amplitude = a], changed |-> TRUE]
        ELSE IF p # inner.phase
        THEN [inner |-> [inner EXCEPT !.phase = p], changed |-> TRUE]
        ELSE [inner |-> inner, changed |-> FALSE]

(***************************************************************************)
(* State.                                                                  *)
(*   sample_rate, n_samples, components, plot_data_cache: fields of Main   *)
(*   pc, idx: the place of Main::update in the current frame; idx is the   *)
(*            position of the right panel's loop over the components       *)
(* History (not program state), all counted since the latest invalidate(): *)
(*   calls:        get_or_init calls, capped at MaxCalls                   *)
(*   computations: runs of the closure                                     *)
(*   returned:     what the latest get_or_init call returned               *)
(*   dirty:        components, sample_rate or n_samples were written       *)
(*   fresh:        this Main value has not read its cache yet              *)
(*   purge_begin:  the list as the purge loop of this frame found it       *)
(*                 (empty outside the loop)                                *)
(*   inputs:       user inputs met so far in this frame                    *)
(*   frame_removed: a Remove button was clicked in this frame              *)
(*   after_removal: a Remove button was clicked in the frame before        *)
(* The shared planner (static FFT_PLANNER) and the threads that ask it for *)
(* a plan, each running lines 221-225 of the closure:                      *)
(*   planner_lock: the Mutex, None when free, Some(t) when thread t holds  *)
(*                 its guard                                               *)
(*   session_pc:   where thread t is in lines 221-225                      *)
(*   session_len:  the n_samples thread t plans for (None while idle)      *)
(***************************************************************************)
VARIABLES sample_rate, n_samples, components, plot_data_cache, pc, idx,
          calls, computations, returned, dirty, fresh, purge_begin,
          inputs, frame_removed, after_removal

VARIABLES planner_lock, session_pc, session_len

planner_vars == << planner_lock, session_pc, session_len >>

session_vars == << sample_rate, n_samples, components, plot_data_cache, pc, idx,
                   calls, computations, returned, dirty, fresh, purge_begin,
                   inputs, frame_removed, after_removal >>

vars == << session_vars, planner_vars >>

Sessions == 1..MaxSessions

params == << sample_rate, n_samples, components >>
history == << calls, computations, returned, dirty, fresh >>
frame_log == << inputs, frame_removed, after_removal >>

\* Main::new: a session restored from storage with a persisted sample_rate
\* and n_samples and no components, its cache Cache::default() since the
\* field is #[serde(skip)].  (Main::default() is such a session with
\* sample_rate 3000.0 and n_samples 1000, beyond MaxRate and MaxSamples.)
Init ==
    /\ sample_rate \in SAMPLE_RATE_MIN..MaxRate
    /\ n_samples \in 1..MaxSamples
    /\ components = <<>>
    /\ plot_data_cache = None
    /\ pc = "add_sine"
    /\ idx = 1
    /\ calls = 0
    /\ computations = 0
    /\ returned = None
    /\ dirty = FALSE
    /\ fresh = TRUE
    /\ purge_begin = <<>>
    /\ inputs = 0
    /\ frame_removed = FALSE
    /\ after_removal = FALSE
    /\ planner_lock = None
    /\ session_pc = [t \in Sessions |-> "idle"]
    /\ session_len = [t \in Sessions |-> None]

\* plot_data_cache.invalidate()
Invalidate ==
    /\ plot_data_cache' = invalidate(plot_data_cache)
    /\ calls' = 0
    /\ computations' = 0
    /\ returned' = None
    /\ dirty' = FALSE

KeepCache == UNCHANGED << plot_data_cache, calls, computations, returned >>

\* The frame meets k more user inputs
Input(k) ==
    /\ inputs + k <= MaxInputs
    /\ inputs' = inputs + k

(***************************************************************************)
(* The lists explored.  EditedCount is the number of parameters and labels *)
(* of the listed components that differ from the Add defaults; a full list *)
(* (MaxComponents elements) carries at most one, a shorter list one more   *)
(* for every free place.                                                   *)
(***************************************************************************)
EditedCount(comps) ==
    Cardinality({ jp \in (1..Len(comps)) \X {"frequency", "amplitude", "phase"} :
                    comps[jp[1]].inner[jp[2]] # NewComponent("Sine").inner[jp[2]] })
    + Cardinality({ j \in 1..Len(comps) :
                    comps[j].name # NewComponent(comps[j].inner.kind).name })

Explored(comps) ==
    /\ Len(comps) <= MaxComponents
    /\ Len(comps) + EditedCount(comps) <= MaxComponents + 1

(***************************************************************************)
(* Left panel: the three Add buttons (app.rs 114-151).                     *)
(***************************************************************************)
\* An Add button that pushes without invalidating
AddButtonKeepsCache(kind, at, next, clicked) ==
    /\ pc = at
    /\ pc' = next
    /\ UNCHANGED << sample_rate, n_samples, idx, fresh, purge_begin >>
    /\ UNCHANGED << frame_removed, after_removal >>
    /\ UNCHANGED planner_vars
    /\ KeepCache
    /\ IF clicked
       THEN /\ Len(components) < MaxComponents
            /\ Input(1)
            /\ components' = Append(components, NewComponent(kind))
            /\ Explored(components')
            /\ dirty' = TRUE
       ELSE /\ UNCHANGED components
            /\ UNCHANGED << dirty, inputs >>

AddButton(kind, at, next, clicked) ==
    /\ pc = at
    /\ pc' = next
    /\ UNCHANGED << sample_rate, n_samples, idx, fresh, purge_begin >>
    /\ UNCHANGED << frame_removed, after_removal >>
    /\ UNCHANGED planner_vars
    /\ IF clicked
       THEN /\ Len(components) < MaxComponents
            /\ Input(1)
            /\ components' = Append(components, NewComponent(kind))
            /\ Explored(components')
            /\ Invalidate
       ELSE /\ UNCHANGED components
            /\ KeepCache
            /\ UNCHANGED << dirty, inputs >>

AddSine == \E clicked \in BOOLEAN : AddButton("Sine", "add_sine", "add_square", clicked)
AddSquare == \E clicked \in BOOLEAN : AddButton("Square", "add_square", "add_sawtooth", clicked)
AddSawtooth == \E clicked \in BOOLEAN : AddButton("Sawtooth", "add_sawtooth", "sample_rate", clicked)

(***************************************************************************)
(* Left panel: the settings (app.rs 156-176).  v is the value the control  *)
(* is driven to in this frame; the control stores it clamped and reports   *)
(* changed() when the stored value differs from the one before.            *)
(***************************************************************************)
SampleRateControl(v) ==
    /\ pc = "sample_rate"
    /\ pc' = "n_samples"
    /\ sample_rate' = Clamp(v, SAMPLE_RATE_MIN)
    /\ UNCHANGED << n_samples, components, idx, fresh, purge_begin >>
    /\ UNCHANGED << frame_removed, after_removal >>
    /\ UNCHANGED planner_vars
    /\ IF sample_rate' # sample_rate
       THEN Input(1) /\ Invalidate
       ELSE KeepCache /\ UNCHANGED << dirty, inputs >>

\* An n_samples control that invalidates whether or not the value changed
NSamplesControlAlways(v) ==
    /\ pc = "n_samples"
    /\ pc' = "right"
    /\ n_samples' = Clamp(v, N_SAMPLES_MIN)
    /\ UNCHANGED << sample_rate, components, idx, fresh, purge_begin >>
    /\ UNCHANGED << frame_removed, after_removal >>
    /\ UNCHANGED planner_vars
    /\ Invalidate
    /\ IF n_samples' # n_samples THEN Input(1) ELSE UNCHANGED inputs

NSamplesControl(v) ==
    /\ pc = "n_samples"
    /\ pc' = "right"
    /\ n_samples' = Clamp(v, N_SAMPLES_MIN)
    /\ UNCHANGED << sample_rate, components, idx, fresh, purge_begin >>
    /\ UNCHANGED << frame_removed, after_removal >>
    /\ UNCHANGED planner_vars
    /\ IF n_samples' # n_samples
       THEN Input(1) /\ Invalidate
       ELSE KeepCache /\ UNCHANGED << dirty, inputs >>

(***************************************************************************)
(* ComponentWrapper::show (app.rs 281-300) of an enabled component: the    *)
(* label's text edit writes the typed text to `name` and its response is   *)
(* not looked at; then the controls of show_control, which invalidate when *)
(* one changed; then the Remove button, which clears `enabled` and nothing *)
(* else.  `met` counts the user inputs the component met.                  *)
(***************************************************************************)
\* A show that also invalidates when the label was edited
show_label_invalidates(c, nv, fv, av, pv, remove_clicked) ==
    LET name == IF IsSome(nv) THEN Unwrap(nv) ELSE c.name
        r == show_control(c.inner, fv, av, pv)
    IN  [wrapper |-> [inner |-> r.inner, name |-> name, enabled |-> ~remove_clicked],
         invalidated |-> (r.changed \/ name # c.name),
         met |-> (IF name # c.name THEN 1 ELSE 0) + (IF r.changed THEN 1 ELSE 0)
                 + (IF remove_clicked THEN 1 ELSE 0)]

show(c, nv, fv, av, pv, remove_clicked) ==
    LET name == IF IsSome(nv) THEN Unwrap(nv) ELSE c.name
        r == show_control(c.inner, fv, av, pv)
    IN  [wrapper |-> [inner |-> r.inner, name |-> name, enabled |-> ~remove_clicked],
         invalidated |-> r.changed,
         met |-> (IF name # c.name THEN 1 ELSE 0) + (IF r.changed THEN 1 ELSE 0)
                 + (IF remove_clicked THEN 1 ELSE 0)]

(***************************************************************************)
(* Right panel: one turn of the loop over the components (app.rs 181-190). *)
(* .filter(|c| c.enabled) passes over a disabled element; an enabled one   *)
(* is shown.                                                               *)
(***************************************************************************)
ShowComponent(nv, fv, av, pv, remove_clicked) ==
    /\ pc = "right"
    /\ idx <= Len(components)
    /\ idx' = idx + 1
    /\ UNCHANGED << pc, sample_rate, n_samples, fresh, purge_begin, after_removal >>
    /\ UNCHANGED planner_vars
    /\ IF ~components[idx].enabled
       THEN /\ UNCHANGED << components, plot_data_cache, calls, computations, returned >>
            /\ UNCHANGED << dirty, inputs, frame_removed >>
       ELSE LET r == show(components[idx], nv, fv, av, pv, remove_clicked)
            IN  /\ components' = [components EXCEPT ![idx] = r.wrapper]
                /\ Explored(components')
                /\ Input(r.met)
                /\ frame_removed' = (frame_removed \/ remove_clicked)
                /\ IF r.invalidated
                   THEN /\ plot_data_cache' = invalidate(plot_data_cache)
                        /\ calls' = 0
                        /\ computations' = 0
                        /\ returned' = None
                        /\ dirty' = remove_clicked
                   ELSE /\ KeepCache
                        /\ dirty' = (dirty \/ remove_clicked)

RightPanelDone ==
    /\ pc = "right"
    /\ idx > Len(components)
    /\ pc' = "central"
    /\ idx' = 1
    /\ UNCHANGED << params, plot_data_cache, history, purge_begin, frame_log >>
    /\ UNCHANGED planner_vars

(***************************************************************************)
(* Central panel: let pd = plot_data_cache.get_or_init(|| ...)             *)
(***************************************************************************)
ReadCache ==
    /\ pc = "central"
    /\ pc' = "purge"
    /\ LET r == get_or_init(plot_data_cache,
                            ComputePlotData(sample_rate, n_samples, components))
       IN  /\ plot_data_cache' = r.data
           /\ returned' = r.data
           /\ computations' = IF r.ran THEN computations + 1 ELSE computations
    /\ calls' = IF calls < MaxCalls THEN calls + 1 ELSE calls
    /\ fresh' = FALSE
    /\ purge_begin' = components
    /\ UNCHANGED << idx, params, dirty, frame_log >>
    /\ UNCHANGED planner_vars

(***************************************************************************)
(* End of update: the purge loop (app.rs 266-269), one turn per step.      *)
(* update holds the only reference to Main, so nothing can run between     *)
(* the removal and the invalidation of one turn.                           *)
(***************************************************************************)
\* A purge turn that removes without invalidating
PurgeStepKeepsCache ==
    /\ pc = "purge"
    /\ IsSome(position_disabled(components))
    /\ components' = remove(components, Unwrap(position_disabled(components)))
    /\ KeepCache
    /\ UNCHANGED << pc, idx, sample_rate, n_samples, dirty, fresh, purge_begin >>
    /\ UNCHANGED frame_log
    /\ UNCHANGED planner_vars

PurgeStep ==
    /\ pc = "purge"
    /\ IsSome(position_disabled(components))
    /\ components' = remove(components, Unwrap(position_disabled(components)))
    /\ Invalidate
    /\ UNCHANGED << pc, idx, sample_rate, n_samples, fresh, purge_begin >>
    /\ UNCHANGED frame_log
    /\ UNCHANGED planner_vars

\* The update returns whether or not a turn of the loop is due
EndFrameEarly ==
    /\ pc = "purge"
    /\ pc' = "add_sine"
    /\ purge_begin' = <<>>
    /\ inputs' = 0
    /\ frame_removed' = FALSE
    /\ after_removal' = frame_removed
    /\ UNCHANGED << idx, params, plot_data_cache, history >>
    /\ UNCHANGED planner_vars

EndFrame ==
    /\ pc = "purge"
    /\ ~IsSome(position_disabled(components))
    /\ pc' = "add_sine"
    /\ purge_begin' = <<>>
    /\ inputs' = 0
    /\ frame_removed' = FALSE
    /\ after_removal' = frame_removed
    /\ UNCHANGED << idx, params, plot_data_cache, history >>
    /\ UNCHANGED planner_vars

(***************************************************************************)
(* Shutdown and restart.  After the last update returns eframe calls save  *)
(* (app.rs 57-59), which serialises Main without the #[serde(skip)]        *)
(* fields; the next run builds its Main in Main::new (app.rs 41-52) from   *)
(* the stored value, the skipped fields taking their Default.              *)
(***************************************************************************)
\* eframe::set_value(storage, APP_KEY, self): the serialised fields
save(rate, n, comps) ==
    [sample_rate |-> rate, n_samples |-> n, components |-> comps]

\* eframe::get_value(storage, APP_KEY): plot_data_cache is Cache::default()
new(storage) ==
    [sample_rate |-> storage.sample_rate,
     n_samples |-> storage.n_samples,
     components |-> storage.components,
     plot_data_cache |-> None]

\* A restart that brings the cache of the last run back
RestartKeepsCache ==
    /\ pc = "purge"
    /\ ~IsSome(position_disabled(components))
    /\ pc' = "add_sine"
    /\ fresh' = TRUE
    /\ purge_begin' = <<>>
    /\ inputs' = 0
    /\ frame_removed' = FALSE
    /\ after_removal' = FALSE
    /\ UNCHANGED << idx, params, plot_data_cache, calls, computations, returned, dirty >>
    /\ UNCHANGED planner_vars

Restart ==
    /\ pc = "purge"
    /\ ~IsSome(position_disabled(components))
    /\ pc' = "add_sine"
    /\ LET main == new(save(sample_rate, n_samples, components))
       IN  /\ sample_rate' = main.sample_rate
           /\ n_samples' = main.n_samples
           /\ components' = main.components
           /\ plot_data_cache' = main.plot_data_cache
    /\ calls' = 0
    /\ computations' = 0
    /\ returned' = None
    /\ dirty' = FALSE
    /\ fresh' = TRUE
    /\ purge_begin' = <<>>
    /\ inputs' = 0
    /\ frame_removed' = FALSE
    /\ after_removal' = FALSE
    /\ UNCHANGED idx
    /\ UNCHANGED planner_vars

Next ==
    \/ AddSine
    \/ AddSquare
    \/ AddSawtooth
    \/ \E v \in RateInputs : SampleRateControl(v)
    \/ \E v \in NSamplesInputs : NSamplesControl(v)
    \/ \E nv \in NameInputs, fv \in FrequencyInputs, av \in AmplitudeInputs,
          pv \in PhaseInputs, remove_clicked \in BOOLEAN :
             ShowComponent(nv, fv, av, pv, remove_clicked)
    \/ RightPanelDone
    \/ ReadCache
    \/ PurgeStep
    \/ EndFrame
    \/ Restart

Spec == Init /\ [][Next]_vars

\* Main::update is straight-line code: a due turn of the purge loop is made
\* and, when none is due, the update returns (or the run ends)
FrameFairness ==
    /\ WF_vars(PurgeStep)
    /\ WF_vars(EndFrame \/ Restart)

LiveSpec == Spec /\ FrameFairness

(***************************************************************************)
(* The shared planner.  FFT_PLANNER is a process-wide                      *)
(* Lazy<Mutex<FftPlanner<f64>>> (app.rs 8-9); the closure reaches it in    *)
(*     let fft = FFT_PLANNER.lock().expect(..).plan_fft_forward(n);        *)
(*     fft.process(&mut buffer);                                           *)
(* The MutexGuard is a temporary of the `let` statement: it lives across   *)
(* plan_fft_forward and is dropped at the end of the statement, before     *)
(* fft.process.  Here several threads run these lines side by side, each   *)
(* for its own n_samples.                                                  *)
(***************************************************************************)
\* The closure of thread t reaches FFT_PLANNER.lock() with n_samples = n
RequestPlan(t, n) ==
    /\ session_pc[t] = "idle"
    /\ session_pc' = [session_pc EXCEPT ![t] = "lock"]
    /\ session_len' = [session_len EXCEPT ![t] = Some(n)]
    /\ UNCHANGED << planner_lock, session_vars >>

\* A lock() that returns a guard whether or not the mutex is held
LockNoWait(t) ==
    /\ session_pc[t] = "lock"
    /\ planner_lock' = Some(t)
    /\ session_pc' = [session_pc EXCEPT ![t] = "plan"]
    /\ UNCHANGED << session_len, session_vars >>

\* Mutex::lock returns: it blocks while another thread holds the guard
Lock(t) ==
    /\ session_pc[t] = "lock"
    /\ planner_lock = None
    /\ planner_lock' = Some(t)
    /\ session_pc' = [session_pc EXCEPT ![t] = "plan"]
    /\ UNCHANGED << session_len, session_vars >>

\* plan_fft_forward(n) returns the plan, the guard is still alive
PlanFftForward(t) ==
    /\ session_pc[t] = "plan"
    /\ session_pc' = [session_pc EXCEPT ![t] = "drop"]
    /\ UNCHANGED << planner_lock, session_len, session_vars >>

\* End of the `let fft = ...;` statement: the temporary guard is dropped
DropGuard(t) ==
    /\ session_pc[t] = "drop"
    /\ planner_lock' = IF planner_lock = Some(t) THEN None ELSE planner_lock
    /\ session_pc' = [session_pc EXCEPT ![t] = "process"]
    /\ UNCHANGED << session_len, session_vars >>

\* fft.process(&mut buffer), outside the lock; the closure goes on
Process(t) ==
    /\ session_pc[t] = "process"
    /\ session_pc' = [session_pc EXCEPT ![t] = "idle"]
    /\ session_len' = [session_len EXCEPT ![t] = None]
    /\ UNCHANGED << planner_lock, session_vars >>

PlannerInit ==
    /\ Init
    /\ sample_rate = SAMPLE_RATE_MIN
    /\ n_samples = 1

PlannerNext ==
    \E t \in Sessions :
        \/ \E n \in N_SAMPLES_MIN..MaxSamples : RequestPlan(t, n)
        \/ Lock(t)
        \/ PlanFftForward(t)
        \/ DropGuard(t)
        \/ Process(t)

\* A running thread takes its next step (plan_fft_forward and fft.process
\* return), and a thread blocked in lock() is not passed over forever when
\* the mutex keeps becoming free.  Requests themselves are not forced.
PlannerFairness ==
    \A t \in Sessions :
        /\ SF_vars(Lock(t))
        /\ WF_vars(PlanFftForward(t))
        /\ WF_vars(DropGuard(t))
        /\ WF_vars(Process(t))

PlannerSpec == PlannerInit /\ [][PlannerNext]_vars /\ PlannerFairness

(***************************************************************************)
(*                              Properties                                 *)
(***************************************************************************)
\* The elements of the list that are enabled, in order
EnabledOnly(comps) == SelectSeq(comps, LAMBDA c : c.enabled)

\* A step in which the closure of get_or_init ran
ClosureRan == computations' = computations + 1

\* A step that is the get_or_init call of the central panel
GetOrInitCall == pc = "central" /\ pc' = "purge"

(***************************************************************************)
(* C1.  Cache coherency: in every reachable state, also inside a frame, a  *)
(* valid cache holds what a fresh computation from the enabled components, *)
(* the sample rate and the sample count would produce.                     *)
(***************************************************************************)
C1_CacheCoherent ==
    is_valid(plot_data_cache) =>
        Unwrap(plot_data_cache) =
            ComputePlotData(sample_rate, n_samples, EnabledOnly(components))

(***************************************************************************)
(* C2.  After every mutation of the components, the sample rate or the     *)
(* sample count the cache is invalid before it is read again (no read      *)
(* finds a valid cache while a mutation is still un-invalidated), and      *)
(* after get_or_init the cache is valid.                                   *)
(***************************************************************************)
C2_InvalidBeforeRead ==
    /\ pc = "central" => ~(dirty /\ is_valid(plot_data_cache))
    /\ calls > 0 => is_valid(plot_data_cache)

(***************************************************************************)
(* C3.  Between two invalidations the closure runs exactly once, in the    *)
(* first get_or_init call, and every call returns the same PlotData: a     *)
(* call on a valid cache runs nothing and returns what the call before it  *)
(* returned, which is the stored data.                                     *)
(***************************************************************************)
C3_OneComputation ==
    /\ [](/\ computations <= 1
          /\ (calls >= 1 => computations = 1)
          /\ (calls = 0 => computations = 0)
          /\ (calls >= 1 => returned = plot_data_cache /\ is_valid(plot_data_cache)))
    /\ [][(GetOrInitCall /\ calls >= 1) =>
             /\ computations' = computations
             /\ returned' = returned
             /\ plot_data_cache' = plot_data_cache]_vars

\* the second call of a validity window has returned and the closure ran once
C3_Witness == calls = 2 /\ computations = 1 /\ pc = "purge" /\ Len(components) > 0

(***************************************************************************)
(* C4.  Disabled components are excluded from synthesis: whenever the      *)
(* closure runs, the waveform it stores equals the waveform computed with  *)
(* the disabled components absent from the list.                           *)
(***************************************************************************)
C4_DisabledExcluded ==
    [][ClosureRan =>
          Unwrap(plot_data_cache').waveform =
              ComputePlotData(sample_rate, n_samples,
                              EnabledOnly(components)).waveform]_vars

(***************************************************************************)
(* C5.  No invalid value reaches synthesis: whenever the closure runs, the *)
(* sample rate is > 0, the sample count is >= 1 and every component        *)
(* frequency is > 0.                                                       *)
(***************************************************************************)
C5_ValidInputs ==
    [][ClosureRan =>
          /\ sample_rate > 0
          /\ n_samples >= 1
          /\ \A j \in 1..Len(components) : frequency(components[j].inner) > 0]_vars

(***************************************************************************)
(* C6.  An edit to an invalid value (sample rate <= 0, sample count = 0,   *)
(* component frequency <= 0) is rejected: the sample rate, the sample      *)
(* count, the components and the cache are as before the attempt.          *)
(***************************************************************************)
InvalidEdit ==
    \/ \E v \in RateInputs : v <= 0 /\ SampleRateControl(v)
    \/ NSamplesControl(0)
    \/ \E fv \in FrequencyInputs :
          /\ fv <= 0
          /\ pc = "right" /\ idx <= Len(components) /\ components[idx].enabled
          /\ ShowComponent(None, fv, components[idx].inner.amplitude,
                           components[idx].inner.phase, FALSE)

C6_InvalidEditRejected ==
    [][InvalidEdit =>
          UNCHANGED << sample_rate, n_samples, components, plot_data_cache >>]_vars

(***************************************************************************)
(* C7.  A component is dropped from the list only together with the        *)
(* invalidation of the cache: the step that shortens the list leaves the   *)
(* cache invalid and no get_or_init call has read it since, so no state    *)
(* has the component gone and the cache still valid.  Only disabled        *)
(* components are dropped.                                                 *)
(***************************************************************************)
C7_DropInvalidates ==
    [][Len(components') < Len(components) =>
          /\ ~is_valid(plot_data_cache')
          /\ calls' = 0
          /\ ~GetOrInitCall
          /\ components' = remove(components, Unwrap(position_disabled(components)))
      ]_vars

\* a purge turn has dropped a component, another component is still listed
C7_Witness ==
    pc = "purge" /\ ~is_valid(plot_data_cache) /\ Len(components) = 1

(***************************************************************************)
(* C8.  The spectrum is a prefix cut at sample_rate/2.56: for n >= 1 the   *)
(* emitted bins are the bins 0..k-1 in order, k the least index in [0,n)   *)
(* with i*(sample_rate/n) >= sample_rate/2.56 (n if there is none); bin i  *)
(* carries the label i*(sample_rate/n), and no emitted label reaches       *)
(* sample_rate/2.56.                                                       *)
(***************************************************************************)
\* i * (sample_rate / n_samples) >= sample_rate / 2.56, cross-multiplied
AtOrAboveCutoff(i) ==
    i * sample_rate * FMAX_SCALE.num >= sample_rate * FMAX_SCALE.den * n_samples

CutIndex ==
    IF \E i \in 0..(n_samples - 1) : AtOrAboveCutoff(i)
    THEN CHOOSE i \in 0..(n_samples - 1) :
            /\ AtOrAboveCutoff(i)
            /\ \A j \in 0..(i - 1) : ~AtOrAboveCutoff(j)
    ELSE n_samples

C8_SpectrumPrefix ==
    (is_valid(plot_data_cache) /\ n_samples >= 1) =>
        LET spectrum == Unwrap(plot_data_cache).spectrum
        IN  /\ Len(spectrum) = CutIndex
            /\ \A i \in 0..(CutIndex - 1) :
                  /\ spectrum[i + 1][1] = Frac(i * sample_rate, n_samples)
                  /\ ~AtOrAboveCutoff(i)

\* a spectrum of three samples cut to two bins
C8_Witness ==
    /\ is_valid(plot_data_cache)
    /\ n_samples = 3
    /\ Len(Unwrap(plot_data_cache).spectrum) = 2
    /\ Len(components) > 0

(***************************************************************************)
(* C9.  The computed waveform has exactly n samples, in index order, and   *)
(* sample i has the time coordinate i / sample_rate.                       *)
(***************************************************************************)
C9_WaveformLength ==
    is_valid(plot_data_cache) =>
        LET waveform == Unwrap(plot_data_cache).waveform
        IN  /\ Len(waveform) = n_samples
            /\ \A i \in 0..(n_samples - 1) :
                  waveform[i + 1][1] = Frac(i, sample_rate)

\* three samples of a one-component signal at sample rate 2
C9_Witness ==
    /\ is_valid(plot_data_cache)
    /\ n_samples = 3
    /\ sample_rate = 2
    /\ Len(components) = 1
    /\ Len(Unwrap(plot_data_cache).waveform) = 3

(***************************************************************************)
(* C10.  Adding a component of kind Sine, Square or Sawtooth appends one   *)
(* enabled component of that kind with frequency 100 Hz, amplitude 1 and   *)
(* phase 0 at the end of the list, leaves the existing components, the     *)
(* sample rate and the sample count unchanged, and invalidates the cache.  *)
(***************************************************************************)
ButtonKind ==
    CASE pc = "add_sine" -> "Sine"
      [] pc = "add_square" -> "Square"
      [] pc = "add_sawtooth" -> "Sawtooth"
      [] OTHER -> "none"

C10_AddAppendsDefault ==
    [][(ButtonKind # "none" /\ (components' # components \/ ~KeepCache)) =>
          /\ Len(components') = Len(components) + 1
          /\ SubSeq(components', 1, Len(components)) = components
          /\ components'[Len(components')] =
                [inner |-> [kind |-> ButtonKind, frequency |-> 10000,
                            amplitude |-> 1, phase |-> 0],
                 name |-> ButtonKind, enabled |-> TRUE]
          /\ sample_rate' = sample_rate
          /\ n_samples' = n_samples
          /\ ~is_valid(plot_data_cache')
      ]_vars

\* a Sawtooth was just appended behind an existing, edited component
C10_Witness ==
    /\ pc = "sample_rate"
    /\ Len(components) = 2
    /\ components[2] = NewComponent("Sawtooth")
    /\ components[1].inner.frequency # DefaultFrequency
    /\ ~is_valid(plot_data_cache)

(***************************************************************************)
(* C11.  Planner mutual exclusion: at most one thread is inside the plan   *)
(* request (between the return of lock() and the drop of the guard) at any *)
(* time and it is the holder of the mutex; the guard is gone when the      *)
(* transform is executed; and every thread that waits in lock() gets the   *)
(* planner.                                                                *)
(***************************************************************************)
InPlanner(t) == session_pc[t] \in {"plan", "drop"}

C12_InvalidateIdempotent ==
    /\ invalidate(plot_data_cache) = None
    /\ ~is_valid(invalidate(plot_data_cache))
    /\ invalidate(invalidate(plot_data_cache)) = invalidate(plot_data_cache)

\* a valid cache, holding the data of a component, that invalidate() empties
C12_Witness ==
    /\ is_valid(plot_data_cache)
    /\ Len(components) > 0
    /\ invalidate(plot_data_cache) # plot_data_cache

(***************************************************************************)
(* C13.  For a sample rate > 0 and a sample count n >= 1 the spectrum has  *)
(* at most ceil(n / 2.56) bins and never more than n; the cut always       *)
(* leaves bin 0, so the spectrum of n >= 1 samples is never empty.         *)
(***************************************************************************)
C13_SpectrumLength ==
    (is_valid(plot_data_cache) /\ sample_rate > 0 /\ n_samples >= 1) =>
        LET len == Len(Unwrap(plot_data_cache).spectrum)
        IN  /\ len <= (25 * n_samples + 63) \div 64
            /\ len <= n_samples
            /\ len >= 1

\* two samples at sample rate 2: one bin, fewer than n
C13_Witness ==
    /\ is_valid(plot_data_cache)
    /\ n_samples = 2
    /\ sample_rate = 2
    /\ Len(Unwrap(plot_data_cache).spectrum) = 1

(***************************************************************************)
(* C14.  With no components, a sample rate > 0 and a sample count n >= 1   *)
(* the computed PlotData has a waveform of n samples, all of amplitude 0,  *)
(* and a spectrum whose every bin has magnitude 0.                         *)
(***************************************************************************)
C14_EmptySetIsZero ==
    (is_valid(plot_data_cache) /\ components = <<>>
        /\ sample_rate > 0 /\ n_samples >= 1) =>
        LET pd == Unwrap(plot_data_cache)
        IN  /\ Len(pd.waveform) = n_samples
            /\ \A k \in 1..Len(pd.waveform) : pd.waveform[k][2] = Zero
            /\ \A k \in 1..Len(pd.spectrum) : pd.spectrum[k][2] = Zero

\* the PlotData of three samples of the empty signal
C14_Witness ==
    /\ is_valid(plot_data_cache)
    /\ components = <<>>
    /\ n_samples = 3
    /\ Len(Unwrap(plot_data_cache).spectrum) = 2

(***************************************************************************)
(* C15.  Every session starts with an invalid cache, also one restored     *)
(* from persisted state: until its first read the cache of a session is    *)
(* invalid, and that first read runs the closure and returns the PlotData  *)
(* of the session's current sample rate, sample count and components.      *)
(***************************************************************************)
C15_SessionStartsInvalid ==
    /\ [](fresh => ~is_valid(plot_data_cache))
    /\ [][(GetOrInitCall /\ fresh) =>
             /\ ClosureRan
             /\ returned' = Some(ComputePlotData(sample_rate, n_samples, components))
             /\ plot_data_cache' = returned'
             /\ ~fresh']_vars

\* a session restored with the components of the run before it
C15_Witness ==
    /\ fresh
    /\ pc = "add_sine"
    /\ Len(components) > 0
    /\ ~is_valid(plot_data_cache)

(***************************************************************************)
(* C16.  The end-of-frame purge terminates, and when the frame ends the    *)
(* list holds exactly the components that were enabled when the purge      *)
(* began, in their relative order; at a frame boundary no component has    *)
(* enabled = false.                                                        *)
(***************************************************************************)
FrameEnds == pc = "purge" /\ pc' = "add_sine"

SessionEnds == pc = "purge" /\ fresh'

C17_SteadyState ==
    /\ []((pc = "purge" /\ inputs = 0) =>
             /\ is_valid(plot_data_cache)
             /\ \A j \in 1..Len(components) : components[j].enabled)
    /\ [][ClosureRan => (GetOrInitCall /\ ~is_valid(plot_data_cache))]_vars
    /\ [][(inputs = 0 /\ inputs' = 0 /\ is_valid(plot_data_cache) /\ ~SessionEnds) =>
             /\ plot_data_cache' = plot_data_cache
             /\ computations' = computations]_vars

\* the read of a second input-free frame in a row has returned the stored data
C17_Witness ==
    /\ pc = "purge"
    /\ inputs = 0
    /\ ~after_removal
    /\ calls = 2
    /\ computations = 1
    /\ Len(components) = 2

(***************************************************************************)
(* C18.  When a Remove button was clicked in a frame, at the end of that   *)
(* frame the list is the list the purge found without its disabled         *)
(* elements, shorter than it, and the cache is invalid; the read of the    *)
(* frame after it runs the closure over the list of that moment, in which  *)
(* no element is disabled unless its Remove was clicked in that very       *)
(* frame.                                                                  *)
(***************************************************************************)
C18_RemoveThenNextFrame ==
    /\ [][(FrameEnds /\ frame_removed) =>
             /\ ~is_valid(plot_data_cache)
             /\ components = EnabledOnly(purge_begin)
             /\ Len(components) < Len(purge_begin)
             /\ components' = components]_vars
    /\ []((after_removal /\ pc = "add_sine") =>
             /\ ~is_valid(plot_data_cache)
             /\ \A j \in 1..Len(components) : components[j].enabled)
    /\ [][(GetOrInitCall /\ after_removal) =>
             /\ ClosureRan
             /\ returned' = Some(ComputePlotData(sample_rate, n_samples, components))
             /\ \A j \in 1..Len(components) :
                   ~components[j].enabled => frame_removed]_vars

\* the frame after a removal has read the data of the component that is left
C18_Witness ==
    /\ after_removal
    /\ ~frame_removed
    /\ pc = "purge"
    /\ calls = 1
    /\ Len(components) = 1
    /\ returned = Some(ComputePlotData(sample_rate, n_samples, components))

(***************************************************************************)
(* C19.  Typing a new label into a component's name field, with nothing    *)
(* else done to the component, changes that label and nothing else: the    *)
(* cache, the sample rate, the sample count, every component's parameters  *)
(* and enabled flag and every other label stay, and the PlotData computed  *)
(* from the list is the same before and after, so a cache that held it     *)
(* still holds it.                                                         *)
(***************************************************************************)
LabelEdit ==
    /\ pc = "right"
    /\ idx <= Len(components)
    /\ components[idx].enabled
    /\ \E x \in NameTexts :
          /\ components[idx].name # x
          /\ ShowComponent(Some(x), components[idx].inner.frequency,
                           components[idx].inner.amplitude,
                           components[idx].inner.phase, FALSE)

C19_LabelEditOnly ==
    [][LabelEdit =>
          /\ components'[idx].name # components[idx].name
          /\ components' = [components EXCEPT ![idx].name = components'[idx].name]
          /\ UNCHANGED << plot_data_cache, sample_rate, n_samples >>
          /\ ComputePlotData(sample_rate, n_samples, components')
                = ComputePlotData(sample_rate, n_samples, components)
          /\ C1_CacheCoherent => C1_CacheCoherent']_vars

\* a frame whose one input was a label edit has read the data stored before it
C19_Witness ==
    /\ pc = "purge"
    /\ inputs = 1
    /\ calls = 2
    /\ computations = 1
    /\ ~frame_removed
    /\ Len(components) = 1
    /\ components[1].name \in NameTexts

=============================================================================
